---- MODULE Spec2Model ----
(***************************************************************************)
(* Rating recommenders of ex2_206348187_312236219.py: BaselineRecommender, *)
(* NeighborhoodRecommender, LSRecommender, CompetitionRecommender, each    *)
(* with its own specification (SpecBase, SpecNbr, SpecLS, SpecComp).       *)
(* User and item ids are non-negative integers.                            *)
(*                                                                         *)
(* Real numbers are exact rationals [num, den].  The deviation matrix      *)
(* R_tilde holds integer numerators over the common denominator            *)
(* Len(ratings); a correlation num/sqrt(den) is kept as the pair           *)
(* [num, den], which is invariant under that common scaling.               *)
(***************************************************************************)
EXTENDS Integers, Sequences, FiniteSets, TLC

VARIABLES
    ratings,          \* the ratings table handed to the constructor
    tz,               \* UTC offset (seconds) of the local time zone of the host
    solver,           \* which coefficient vector the numerical solver returns
    phase,            \* "new" | "fitted" | "failed"
    R_hat,            \* self.R_hat
    B_u,              \* self.B_u
    B_i,              \* self.B_i
    R_tilde,          \* self.R_tilde      [item][user]
    binary_R_tilde,   \* self.binary_R_tilde [item][user]
    user_corr,        \* self.user_corr    [user][user]
    X,                \* self.X (columns and rows of the design matrix)
    beta,             \* self.beta (absent until solve_ls has run)
    res               \* outcome of the last call made on the object

vars == <<ratings, tz, solver, phase, R_hat, B_u, B_i, R_tilde,
          binary_R_tilde, user_corr, X, beta, res>>

----------------------------------------------------------------------------
(* Bounds of the explored inputs *)

MaxRatings == 4     \* neighbourhood tables have at most this many records
LSMaxRatings == 1   \* least-squares tables have at most this many records

UserIds == 0..3     \* user ids of the neighbourhood tables and calls
ItemIds == 0..1     \* item ids of the neighbourhood tables and calls
RatingValues == {1, 2}
LSIds == 0..1       \* user and item ids of the least-squares tables and calls

\* Epoch seconds of the least-squares tables and calls
Timestamps ==
    { 31579200,     \* Fri 1971-01-01 12:00:00 UTC
      21600,        \* Thu 1970-01-01 06:00:00 UTC
      43200,        \* Thu 1970-01-01 12:00:00 UTC
      64800,        \* Thu 1970-01-01 18:00:00 UTC
      126000,       \* Fri 1970-01-02 11:00:00 UTC
      255600,       \* Sat 1970-01-03 23:00:00 UTC
      7776000,      \* Wed 1970-04-01 00:00:00 UTC
      31532400 }    \* Thu 1970-12-31 23:00:00 UTC

\* UTC offsets of the host's local time zone: UTC and UTC+2
TzOffsets == {0, 7200}

\* The solver's coefficient vectors (see Lstsq)
BetaSigns == {-1, 1}

----------------------------------------------------------------------------
(* Exact rational arithmetic *)

Abs(x) == IF x < 0 THEN -x ELSE x

RECURSIVE Gcd(_, _)
Gcd(a, b) == IF b = 0 THEN a ELSE Gcd(b, a % b)

\* n/d in lowest terms; as for floats, 0/0 is NaN and n/0 an infinity
Rat(n, d) ==
    IF d = 0 THEN [num |-> (IF n < 0 THEN -1 ELSE IF n > 0 THEN 1 ELSE 0), den |-> 0]
    ELSE LET g == Gcd(Abs(n), Abs(d))
             s == IF d < 0 THEN -1 ELSE 1
         IN  [num |-> s * (n \div g), den |-> s * (d \div g)]

RAdd(x, y) == Rat(x.num * y.den + y.num * x.den, x.den * y.den)
RSub(x, y) == Rat(x.num * y.den - y.num * x.den, x.den * y.den)
RLe(x, y)  == x.num * y.den <= y.num * x.den

RECURSIVE SumFn(_, _)
SumFn(f, S) ==
    IF S = {} THEN 0
    ELSE LET x == CHOOSE y \in S : TRUE IN f[x] + SumFn(f, S \ {x})

a_min == Rat(1, 2)
a_max == Rat(5, 1)

\* np.clip(prediction, a_min=0.5, a_max=5); NaN stays NaN
Clip(x) == IF x = [num |-> 0, den |-> 0] THEN x ELSE IF RLe(x, a_min) THEN a_min ELSE IF RLe(a_max, x) THEN a_max ELSE x

----------------------------------------------------------------------------
(* Ratings tables *)

KeyLe(r, s) == r.user < s.user \/ (r.user = s.user /\ r.item <= s.item)

\* Tables of exactly n records.  The fit depends on the order of the records
\* only among records of one (user, item) pair, so tables are enumerated
\* with the pairs in ascending order.
RECURSIVE TablesOfLen(_, _)
TablesOfLen(recs, n) ==
    IF n = 0 THEN { <<>> }
    ELSE { Append(p[1], p[2]) :
             p \in { q \in TablesOfLen(recs, n - 1) \X recs :
                       Len(q[1]) = 0 \/ KeyLe(q[1][Len(q[1])], q[2]) } }

Tables(recs, maxlen) == UNION { TablesOfLen(recs, n) : n \in 1..maxlen }

Column(t, c) == { t[k][c] : k \in DOMAIN t }

\* ratings.rating.mean()
Mean(t) == Rat(SumFn([k \in DOMAIN t |-> t[k].rating], DOMAIN t), Len(t))

\* ratings.groupby(by=c).mean() - R_hat
Bias(t, c) ==
    [ g \in Column(t, c) |->
        LET rows == { k \in DOMAIN t : t[k][c] = g }
        IN  RSub(Rat(SumFn([k \in rows |-> t[k].rating], rows), Cardinality(rows)),
                 Mean(t)) ]

----------------------------------------------------------------------------
(* NeighborhoodRecommender *)

num_neighbours == 3

\* Resolution of the fixed-point rendering of a correlation in predict
CorrScale == 100

NaN == [num |-> 0, den |-> 0]
Zero == [num |-> 0, den |-> 1]

Range(n) == 0..(n - 1)

\* R_tilde[ratings.item.values.astype(int), ratings.user.values.astype(int)]
\* raises IndexError for an index outside the (num_items, num_users) shape
IndexOutOfBounds(t) ==
    \E k \in DOMAIN t :
        \/ t[k].item >= Cardinality(Column(t, "item"))
        \/ t[k].user >= Cardinality(Column(t, "user"))

Max(S) == CHOOSE x \in S : \A y \in S : y <= x

\* R_tilde = zeros((num_items, num_users)); R_tilde[item, user] = rating - R_hat
\* (numerators over Len(t); of several records of one pair the last is kept)
Deviation(t) ==
    LET total == SumFn([k \in DOMAIN t |-> t[k].rating], DOMAIN t)
    IN  [ i \in Range(Cardinality(Column(t, "item"))) |->
          [ u \in Range(Cardinality(Column(t, "user"))) |->
              LET rows == { k \in DOMAIN t : t[k].item = i /\ t[k].user = u }
              IN  IF rows = {} THEN 0
                  ELSE Len(t) * t[Max(rows)].rating - total ] ]

\* a presence test that keeps only the positive deviations
GreaterThanZero(D) == [ i \in DOMAIN D |-> [ u \in DOMAIN D[i] |-> D[i][u] > 0 ] ]

\* self.binary_R_tilde = self.R_tilde != 0
NotEqualZero(D) == [ i \in DOMAIN D |-> [ u \in DOMAIN D[i] |-> D[i][u] # 0 ] ]

UsersOf(D) == IF DOMAIN D = {} THEN {} ELSE DOMAIN D[CHOOSE i \in DOMAIN D : TRUE]

\* a = R_tilde_square.transpose().dot(self.binary_R_tilde)
SquareDotBinary(D, P) ==
    [ x \in UsersOf(D) |-> [ y \in UsersOf(D) |->
        SumFn([ i \in DOMAIN D |-> IF P[i][y] THEN D[i][x] * D[i][x] ELSE 0 ],
              DOMAIN D) ] ]

\* the product a * a, without the transposition
DenominatorUntransposed(a) ==
    [ x \in DOMAIN a |-> [ y \in DOMAIN a |-> a[x][y] * a[x][y] ] ]

\* denominator = a.transpose() * a
Denominator(a) == [ x \in DOMAIN a |-> [ y \in DOMAIN a |-> a[y][x] * a[x][y] ] ]

\* nominator = self.R_tilde.transpose().dot(self.R_tilde)
Nominator(D) ==
    [ x \in UsersOf(D) |-> [ y \in UsersOf(D) |->
        SumFn([ i \in DOMAIN D |-> D[i][x] * D[i][y] ], DOMAIN D) ] ]

\* nominator / np.sqrt(denominator), one entry: n / sqrt(d) is the pair [n, d];
\* 0/0 is NaN and n/0 is an infinity (den = 0)
Divide(n, d) ==
    IF d = 0 THEN (IF n = 0 THEN NaN ELSE [num |-> n, den |-> 0])
    ELSE IF n = 0 THEN Zero
    ELSE [num |-> n, den |-> d]

\* the correlations with the NaN entries left in
FillNaOmitted(c) == c

\* corr.fillna(0)
FillNa(c) == IF c = NaN THEN Zero ELSE c

UserCorr(D, P) ==
    LET nom == Nominator(D)
        den == Denominator(SquareDotBinary(D, P))
    IN  [ x \in UsersOf(D) |-> [ y \in UsersOf(D) |->
            FillNa(Divide(nom[x][y], den[x][y])) ] ]

Sign(n) == IF n < 0 THEN -1 ELSE IF n > 0 THEN 1 ELSE 0

RECURSIVE ISqrtIn(_, _, _)
ISqrtIn(n, lo, hi) ==
    IF lo >= hi THEN lo
    ELSE LET mid == (lo + hi + 1) \div 2
         IN  IF mid * mid <= n THEN ISqrtIn(n, mid, hi) ELSE ISqrtIn(n, lo, mid - 1)

ISqrt(n) == ISqrtIn(n, 0, 46340)

\* the float held for num/sqrt(den), in units of 1/CorrScale
CorrFloat(c) ==
    IF c.den = 0 THEN Sign(c.num) * CorrScale * CorrScale
    ELSE Sign(c.num) * ISqrt((c.num * c.num * CorrScale * CorrScale) \div c.den)

\* |c1| > |c2|
AbsGreater(c1, c2) ==
    IF c1.den = 0 THEN c1.num # 0 /\ ~(c2.den = 0 /\ c2.num # 0)
    ELSE IF c2.den = 0 THEN FALSE
    ELSE c1.num * c1.num * c2.den > c2.num * c2.num * c1.den

\* nearest_neighbours.abs().nlargest(n=self.num_neighbours).index
\* (missing entries dropped, ties kept in index order)
NLargest(nn, n) ==
    LET cand == { v \in DOMAIN nn : nn[v] # NaN }
        Before(w, v) == \/ AbsGreater(nn[w], nn[v])
                        \/ (~AbsGreater(nn[v], nn[w]) /\ w < v)
    IN  { v \in cand : Cardinality({ w \in cand : Before(w, v) }) < n }

\* the division without the guard against zero sums
NeighbourDeviationUnguarded(nominator, denominator, scale) ==
    Rat(nominator, denominator * scale)

\* if nominator == 0 or denominator == 0: 0 else nominator / denominator
NeighbourDeviation(nominator, denominator, scale) ==
    IF nominator = 0 \/ denominator = 0 THEN Rat(0, 1)
    ELSE Rat(nominator, denominator * scale)

\* NeighborhoodRecommender.predict
NeighborhoodPredict(user, item) ==
    IF item \notin DOMAIN binary_R_tilde \/ user \notin DOMAIN user_corr
    THEN [raised |-> "KeyError", value |-> Zero, neighbours |-> {}]
    ELSE
    LET \* binary_R_tilde.loc[item] * user_corr.loc[user]; entries == 0 set to None
        nearest_neighbours ==
            [ v \in DOMAIN user_corr[user] |->
                IF binary_R_tilde[item][v] /\ user_corr[user][v].num # 0
                THEN user_corr[user][v] ELSE NaN ]
        index == NLargest(nearest_neighbours, num_neighbours)
        nominator ==
            SumFn([ v \in index |-> CorrFloat(nearest_neighbours[v]) * R_tilde[item][v] ],
                  index)
        denominator ==
            SumFn([ v \in index |-> Abs(CorrFloat(nearest_neighbours[v])) ], index)
        neighbour_deviation == NeighbourDeviation(nominator, denominator, Len(ratings))
        prediction ==
            IF user \in DOMAIN B_u /\ item \in DOMAIN B_i
            THEN RAdd(RAdd(RAdd(R_hat, B_u[user]), B_i[item]), neighbour_deviation)
            ELSE R_hat
    IN  [raised |-> "none", value |-> Clip(prediction), neighbours |-> index]

NoRes == [op |-> "none", args |-> <<>>, raised |-> "none", value |-> Zero,
          neighbours |-> {}, indices |-> {}]

NbrRecords ==
    [user : UserIds, item : ItemIds, rating : RatingValues, timestamp : {0}]

InitNbr ==
    /\ ratings \in Tables(NbrRecords, MaxRatings)
    /\ tz = 0
    /\ solver = 0
    /\ phase = "new"
    /\ R_hat = Zero
    /\ B_u = <<>>
    /\ B_i = <<>>
    /\ R_tilde = <<>>
    /\ binary_R_tilde = <<>>
    /\ user_corr = <<>>
    /\ X = <<>>
    /\ beta = <<>>
    /\ res = NoRes

\* NeighborhoodRecommender(ratings): Recommender.__init__ runs
\* initialize_predictor; phase "failed" is the constructor raising IndexError
Neighborhood_initialize_predictor ==
    /\ phase = "new"
    /\ IF IndexOutOfBounds(ratings)
       THEN /\ phase' = "failed"
            /\ UNCHANGED <<R_hat, B_u, B_i, R_tilde, binary_R_tilde, user_corr>>
       ELSE /\ phase' = "fitted"
            /\ R_hat' = Mean(ratings)
            /\ B_u' = Bias(ratings, "user")
            /\ B_i' = Bias(ratings, "item")
            /\ R_tilde' = Deviation(ratings)
            /\ binary_R_tilde' = NotEqualZero(Deviation(ratings))
            /\ user_corr' = UserCorr(Deviation(ratings), NotEqualZero(Deviation(ratings)))
    /\ UNCHANGED <<ratings, tz, solver, X, beta, res>>

\* a call of predict(user, item, timestamp) on the fitted object
Neighborhood_predict ==
    /\ phase = "fitted"
    /\ res = NoRes
    /\ \E user \in UserIds, item \in ItemIds :
         LET r == NeighborhoodPredict(user, item)
         IN  res' = [op |-> "predict", args |-> <<user, item>>, raised |-> r.raised,
                     value |-> r.value, neighbours |-> r.neighbours, indices |-> {}]
    /\ UNCHANGED <<ratings, tz, solver, phase, R_hat, B_u, B_i, R_tilde,
                   binary_R_tilde, user_corr, X, beta>>

\* NeighborhoodRecommender.user_similarity
user_similarity ==
    /\ phase = "fitted"
    /\ res = NoRes
    /\ \E user1 \in UserIds, user2 \in UserIds :
         res' = IF user1 \in DOMAIN user_corr /\ user2 \in DOMAIN user_corr
                THEN [NoRes EXCEPT !.op = "user_similarity", !.args = <<user1, user2>>,
                                   !.value = user_corr[user1][user2]]
                ELSE [NoRes EXCEPT !.op = "user_similarity", !.args = <<user1, user2>>,
                                   !.raised = "KeyError"]
    /\ UNCHANGED <<ratings, tz, solver, phase, R_hat, B_u, B_i, R_tilde,
                   binary_R_tilde, user_corr, X, beta>>

\* The call returns (or its exception propagates) to the caller; the object,
\* which no call modifies, is ready for the next call.
Return ==
    /\ res # NoRes
    /\ res' = NoRes
    /\ UNCHANGED <<ratings, tz, solver, phase, R_hat, B_u, B_i, R_tilde,
                   binary_R_tilde, user_corr, X, beta>>

NextNbr ==
    \/ Neighborhood_initialize_predictor
    \/ Neighborhood_predict
    \/ user_similarity
    \/ Return

SpecNbr == InitNbr /\ [][NextNbr]_vars

----------------------------------------------------------------------------
(* BaselineRecommender *)

\* BaselineRecommender(ratings)
Baseline_initialize_predictor ==
    /\ phase = "new"
    /\ phase' = "fitted"
    /\ R_hat' = Mean(ratings)
    /\ B_u' = Bias(ratings, "user")
    /\ B_i' = Bias(ratings, "item")
    /\ UNCHANGED <<ratings, tz, solver, R_tilde, binary_R_tilde, user_corr, X, beta, res>>

\* BaselineRecommender.predict
Baseline_predict ==
    /\ phase = "fitted"
    /\ res = NoRes
    /\ \E user \in UserIds, item \in ItemIds :
         LET prediction ==
                 IF user \in DOMAIN B_u /\ item \in DOMAIN B_i
                 THEN RAdd(RAdd(R_hat, B_u[user]), B_i[item])
                 ELSE R_hat
         IN  res' = [NoRes EXCEPT !.op = "predict", !.args = <<user, item>>,
                                  !.value = Clip(prediction)]
    /\ UNCHANGED <<ratings, tz, solver, phase, R_hat, B_u, B_i, R_tilde,
                   binary_R_tilde, user_corr, X, beta>>

NextBase == Baseline_initialize_predictor \/ Baseline_predict \/ Return

SpecBase == InitNbr /\ [][NextBase]_vars

----------------------------------------------------------------------------
(* Dates.  A naive datetime is the number of seconds since 1970-01-01 00:00 *)
(* on its own clock.                                                        *)

\* pd.to_datetime(ratings['timestamp'], unit='s'): the UTC date and time
to_datetime(timestamp) == timestamp

\* datetime.datetime.fromtimestamp(timestamp): the local date and time
fromtimestamp(timestamp) == timestamp + tz

\* date.time(), in seconds since midnight
TimeOf(date) == date % (24 * 3600)

\* date.weekday() / dt.dayofweek: monday = 0, sunday = 6 (1970-01-01: thursday)
weekday(date) == ((date \div (24 * 3600)) + 3) % 7

\* year and month of the proleptic Gregorian calendar
Civil(date) ==
    LET z   == (date \div (24 * 3600)) + 719468
        era == z \div 146097
        doe == z - era * 146097
        yoe == (doe - (doe \div 1460) + (doe \div 36524) - (doe \div 146096)) \div 365
        doy == doe - (365 * yoe + (yoe \div 4) - (yoe \div 100))
        mp  == (5 * doy + 2) \div 153
        m   == IF mp < 10 THEN mp + 3 ELSE mp - 9
    IN  [year |-> yoe + era * 400 + (IF m <= 2 THEN 1 ELSE 0), month |-> m]

\* datetime.time(6, 00), datetime.time(18, 00)
time_6_00 == 6 * 3600
time_18_00 == 18 * 3600

\* Series.between(left, right): left <= x <= right
between(x, left, right) == left <= x /\ x <= right

----------------------------------------------------------------------------
(* LSRecommender and CompetitionRecommender *)

RECURSIVE SortedSeq(_)
SortedSeq(S) ==
    IF S = {} THEN <<>>
    ELSE LET m == CHOOSE x \in S : \A y \in S : x <= y
         IN  <<m>> \o SortedSeq(S \ {m})

\* the fit-time features of one record
Features(r) ==
    LET date == to_datetime(r.timestamp)
        is_daytime == between(TimeOf(date), time_6_00, time_18_00)
    IN  [user |-> r.user, item |-> r.item,
         year |-> Civil(date).year,
         quarter |-> ((Civil(date).month - 1) \div 3) + 1,
         is_weekend |-> IF weekday(date) \in {4, 5} THEN 1 ELSE 0,
         is_daytime |-> IF is_daytime THEN 1 ELSE 0,
         is_nighttime |-> IF ~is_daytime THEN 1 ELSE 0]

Flags == <<"is_weekend", "is_daytime", "is_nighttime">>

\* pd.get_dummies(ratings, columns=dummies): the columns left as they are come
\* first, then one column f'{c}_{v}' per value v of each column c in dummies,
\* the values ascending.  A row is the set of the (0-based) columns holding 1.
get_dummies(t, dummies) ==
    LET f == [ k \in DOMAIN t |-> Features(t[k]) ]
        Dummy(c) == LET vs == SortedSeq({ f[k][c] : k \in DOMAIN t })
                    IN  [ j \in DOMAIN vs |-> <<c, vs[j]>> ]
        RECURSIVE Cols(_)
        Cols(j) == IF j > Len(dummies) THEN <<>> ELSE Dummy(dummies[j]) \o Cols(j + 1)
        columns == [ j \in DOMAIN Flags |-> <<Flags[j]>> ] \o Cols(1)
    IN  [columns |-> columns,
         rows |-> [ k \in DOMAIN t |->
                     { j - 1 : j \in { jj \in DOMAIN columns :
                         IF Len(columns[jj]) = 1 THEN f[k][columns[jj][1]] # 0
                         ELSE f[k][columns[jj][1]] = columns[jj][2] } } ]]

HasColumn(name) == \E j \in DOMAIN X.columns : X.columns[j] = name

\* self.X.columns.get_loc(name), for a name that is a column
get_loc(name) == (CHOOSE j \in DOMAIN X.columns : X.columns[j] = name) - 1

is_weekend_index == get_loc(<<"is_weekend">>)
is_daytime_index == get_loc(<<"is_daytime">>)
is_nighttime_index == get_loc(<<"is_nighttime">>)

BetaDen == 2 ^ 10

\* np.linalg.lstsq(self.X, self.y) / lsqr(self.X_scipy, self.y, damp=1.5): the
\* numerical solution is not computed.  The solver returns, for one design
\* matrix, one fixed vector with a coefficient per column; the vectors are
\* taken from a family whose sums over distinct column sets are distinct.
Lstsq(columns) ==
    [ j \in 0..(Len(columns) - 1) |-> Rat(solver * (2 ^ j), BetaDen) ]

NoBeta == <<>>

RECURSIVE SumBeta(_, _)
SumBeta(b, indices) ==
    IF indices = {} THEN Rat(0, 1)
    ELSE LET j == CHOOSE x \in indices : TRUE
         IN  RAdd(b[j], SumBeta(b, indices \ {j}))

\* the context flags predict selects for a timestamp
ContextIndices(timestamp) ==
    LET date == fromtimestamp(timestamp)
    IN  (IF weekday(date) \in {4, 5} THEN {is_weekend_index} ELSE {})
        \cup (IF TimeOf(date) > time_6_00 /\ TimeOf(date) < time_18_00
              THEN {is_daytime_index} ELSE {is_nighttime_index})

\* LSRecommender.predict; indices = {} is the except branch
LSPredict(user, item, timestamp) ==
    IF ~HasColumn(<<"user", user>>) \/ ~HasColumn(<<"item", item>>) \/ beta = NoBeta
    THEN [value |-> Clip(R_hat), indices |-> {}]
    ELSE LET indices == {get_loc(<<"user", user>>), get_loc(<<"item", item>>)}
                        \cup ContextIndices(timestamp)
         IN  [value |-> Clip(RAdd(R_hat, SumBeta(beta, indices))), indices |-> indices]

\* a raw_predict that treats the item like the user: unseen means fallback
raw_predict_ItemRequired(user, item, timestamp) ==
    LET date == fromtimestamp(timestamp)
        year == <<"year", Civil(date).year>>
        quarter == <<"quarter", ((Civil(date).month - 1) \div 3) + 1>>
    IN  IF \/ ~HasColumn(<<"user", user>>) \/ ~HasColumn(<<"item", item>>)
           \/ ~HasColumn(year) \/ ~HasColumn(quarter)
        THEN [value |-> R_hat, indices |-> {}]
        ELSE LET indices ==
                     {get_loc(<<"user", user>>), get_loc(<<"item", item>>),
                      get_loc(year), get_loc(quarter)}
                     \cup ContextIndices(timestamp)
             IN  [value |-> RAdd(R_hat, SumBeta(beta, indices)), indices |-> indices]

\* CompetitionRecommender.raw_predict; indices = {} is the except branch
raw_predict(user, item, timestamp) ==
    LET date == fromtimestamp(timestamp)
        year == <<"year", Civil(date).year>>
        quarter == <<"quarter", ((Civil(date).month - 1) \div 3) + 1>>
    IN  IF ~HasColumn(<<"user", user>>) \/ ~HasColumn(year) \/ ~HasColumn(quarter)
        THEN [value |-> R_hat, indices |-> {}]
        ELSE LET indices ==
                     {get_loc(<<"user", user>>)}
                     \cup (IF HasColumn(<<"item", item>>)
                           THEN {get_loc(<<"item", item>>)} ELSE {})
                     \cup {get_loc(year), get_loc(quarter)}
                     \cup ContextIndices(timestamp)
             IN  [value |-> RAdd(R_hat, SumBeta(beta, indices)), indices |-> indices]

LSRecords ==
    [user : LSIds, item : LSIds, rating : RatingValues, timestamp : Timestamps]

InitLS ==
    /\ ratings \in Tables(LSRecords, LSMaxRatings)
    /\ tz \in TzOffsets
    /\ solver \in BetaSigns
    /\ phase = "new"
    /\ R_hat = Zero
    /\ B_u = <<>>
    /\ B_i = <<>>
    /\ R_tilde = <<>>
    /\ binary_R_tilde = <<>>
    /\ user_corr = <<>>
    /\ X = <<>>
    /\ beta = NoBeta
    /\ res = NoRes

\* LSRecommender(ratings)
LS_initialize_predictor ==
    /\ phase = "new"
    /\ phase' = "fitted"
    /\ R_hat' = Mean(ratings)
    /\ X' = get_dummies(ratings, <<"user", "item">>)
    /\ UNCHANGED <<ratings, tz, solver, B_u, B_i, R_tilde, binary_R_tilde,
                   user_corr, beta, res>>

\* LSRecommender.solve_ls
LS_solve_ls ==
    /\ phase = "fitted"
    /\ res = NoRes
    /\ beta' = Lstsq(X.columns)
    /\ res' = [NoRes EXCEPT !.op = "solve_ls"]
    /\ UNCHANGED <<ratings, tz, solver, phase, R_hat, B_u, B_i, R_tilde,
                   binary_R_tilde, user_corr, X>>

LS_predict ==
    /\ phase = "fitted"
    /\ res = NoRes
    /\ \E user \in LSIds, item \in LSIds, timestamp \in Timestamps :
         LET r == LSPredict(user, item, timestamp)
         IN  res' = [NoRes EXCEPT !.op = "predict", !.args = <<user, item, timestamp>>,
                                  !.value = r.value, !.indices = r.indices]
    /\ UNCHANGED <<ratings, tz, solver, phase, R_hat, B_u, B_i, R_tilde,
                   binary_R_tilde, user_corr, X, beta>>

NextLS == LS_initialize_predictor \/ LS_solve_ls \/ LS_predict \/ Return

SpecLS == InitLS /\ [][NextLS]_vars

\* CompetitionRecommender(ratings): initialize_predictor ends with solve_ls
Competition_initialize_predictor ==
    /\ phase = "new"
    /\ phase' = "fitted"
    /\ R_hat' = Mean(ratings)
    /\ X' = get_dummies(ratings, <<"user", "item", "year", "quarter">>)
    /\ beta' = Lstsq(get_dummies(ratings, <<"user", "item", "year", "quarter">>).columns)
    /\ UNCHANGED <<ratings, tz, solver, B_u, B_i, R_tilde, binary_R_tilde,
                   user_corr, res>>

\* CompetitionRecommender.solve_ls
Competition_solve_ls ==
    /\ phase = "fitted"
    /\ res = NoRes
    /\ beta' = Lstsq(X.columns)
    /\ res' = [NoRes EXCEPT !.op = "solve_ls"]
    /\ UNCHANGED <<ratings, tz, solver, phase, R_hat, B_u, B_i, R_tilde,
                   binary_R_tilde, user_corr, X>>

\* CompetitionRecommender.predict
Competition_predict ==
    /\ phase = "fitted"
    /\ res = NoRes
    /\ \E user \in LSIds, item \in LSIds, timestamp \in Timestamps :
         LET r == raw_predict(user, item, timestamp)
         IN  res' = [NoRes EXCEPT !.op = "predict", !.args = <<user, item, timestamp>>,
                                  !.value = Clip(r.value), !.indices = r.indices]
    /\ UNCHANGED <<ratings, tz, solver, phase, R_hat, B_u, B_i, R_tilde,
                   binary_R_tilde, user_corr, X, beta>>

NextComp ==
    \/ Competition_initialize_predictor
    \/ Competition_solve_ls
    \/ Competition_predict
    \/ Return

SpecComp == InitLS /\ [][NextComp]_vars

----------------------------------------------------------------------------
(* Properties of the neighbourhood model *)

InRange(x) == x.den > 0 /\ RLe(a_min, x) /\ RLe(x, a_max)

Raters(item) == { ratings[k].user : k \in { j \in DOMAIN ratings : ratings[j].item = item } }

\* C1: predict returns a value in [0.5, 5] and raises no error, for every
\* (user, item) pair, seen at fit or not.
C1_PredictInRangeNoError ==
    res.op = "predict" => (res.raised = "none" /\ InRange(res.value))

\* C2: constructing a recommender from a table that has the four columns
\* always succeeds, whatever the user and item id values are.
C2_ConstructionSucceeds ==
    phase # "failed"

\* A(a, b) = sum over items of D[item, a]^2 * P[item, b]
C5_A(a, b) ==
    SumFn([ i \in DOMAIN R_tilde |->
              IF binary_R_tilde[i][b] THEN R_tilde[i][a] * R_tilde[i][a] ELSE 0 ],
          DOMAIN R_tilde)

C5_Numerator(a, b) ==
    SumFn([ i \in DOMAIN R_tilde |-> R_tilde[i][a] * R_tilde[i][b] ], DOMAIN R_tilde)

\* C5: user_similarity(u1, u2) of two fitted users lies in [-1, 1]:
\* numerator^2 <= A(u1,u2) * A(u2,u1), the value returned is
\* numerator / sqrt(A(u1,u2) * A(u2,u1)), and it is 0 when that product is 0.
C5_SimilarityBounded ==
    (res.op = "user_similarity" /\ res.raised = "none") =>
        LET u1 == res.args[1]
            u2 == res.args[2]
            n  == C5_Numerator(u1, u2)
            d  == C5_A(u1, u2) * C5_A(u2, u1)
        IN  /\ n * n <= d
            /\ res.value.den > 0
            /\ res.value.num * res.value.num <= res.value.den
            /\ d = 0 => res.value = Zero
            /\ d # 0 => res.value.num * res.value.num * d = n * n * res.value.den

C5_Witness ==
    /\ res.op = "user_similarity"
    /\ res.raised = "none"
    /\ res.args[1] # res.args[2]
    /\ res.value.num < 0
    /\ res.value.num * res.value.num < res.value.den

\* equality of two correlations n1/sqrt(d1) and n2/sqrt(d2)
CorrEq(c1, c2) ==
    IF c1.den = 0 \/ c2.den = 0 THEN c1 = c2 /\ c1 # NaN
    ELSE /\ Sign(c1.num) = Sign(c2.num)
         /\ c1.num * c1.num * c2.den = c2.num * c2.num * c1.den

\* C6: the user correlation matrix is symmetric: user_similarity(a, b)
\* returns what user_similarity(b, a) returns, for all fitted users a, b.
C6_SimilaritySymmetric ==
    (res.op = "user_similarity" /\ res.raised = "none") =>
        CorrEq(res.value, user_corr[res.args[2]][res.args[1]])

C6_Witness ==
    /\ res.op = "user_similarity"
    /\ res.raised = "none"
    /\ res.args[1] # res.args[2]
    /\ res.value.num # 0
    /\ C5_A(res.args[1], res.args[2]) # C5_A(res.args[2], res.args[1])

NoCorrelatedRater(user, item) ==
    \A v \in Raters(item) : v \in DOMAIN user_corr[user] => user_corr[user][v].num = 0

\* C7: for a user and an item of the bias tables, when no rater of the item
\* has a nonzero correlation with the user, predict returns the baseline
\* prediction clamp(R_hat + B_u[user] + B_i[item], 0.5, 5).
C7_NoNeighbourIsBaseline ==
    (/\ res.op = "predict"
     /\ res.args[1] \in DOMAIN B_u
     /\ res.args[2] \in DOMAIN B_i
     /\ NoCorrelatedRater(res.args[1], res.args[2])) =>
        /\ res.raised = "none"
        /\ res.value = Clip(RAdd(RAdd(R_hat, B_u[res.args[1]]), B_i[res.args[2]]))

C7_Witness ==
    /\ res.op = "predict"
    /\ res.args[1] \in DOMAIN B_u
    /\ res.args[2] \in DOMAIN B_i
    /\ NoCorrelatedRater(res.args[1], res.args[2])
    /\ \E v \in Raters(res.args[2]) : binary_R_tilde[res.args[2]][v]
    /\ B_u[res.args[1]].num # 0
    /\ res.value = Clip(RAdd(RAdd(R_hat, B_u[res.args[1]]), B_i[res.args[2]]))

\* C9 as stated: the presence matrix is true exactly for the (user, item)
\* pairs of the rating store, also for a rating equal to the global mean.
C9_PresenceIsObserved ==
    phase = "fitted" =>
        \A i \in DOMAIN binary_R_tilde : \A u \in DOMAIN binary_R_tilde[i] :
            binary_R_tilde[i][u] <=> u \in Raters(i)

LastRating(u, i) ==
    ratings[Max({ k \in DOMAIN ratings : ratings[k].user = u /\ ratings[k].item = i })].rating

\* C9 amended: the presence matrix is true exactly for the pairs of the
\* rating store whose rating (that of the last record of the pair) differs
\* from the global mean.
C9_PresenceIsNonzeroDeviation ==
    phase = "fitted" =>
        \A i \in DOMAIN binary_R_tilde : \A u \in DOMAIN binary_R_tilde[i] :
            binary_R_tilde[i][u] <=>
                (u \in Raters(i) /\ Rat(LastRating(u, i), 1) # R_hat)

C9_Witness ==
    /\ phase = "fitted"
    /\ Len(ratings) > 1
    /\ \E i \in DOMAIN binary_R_tilde : \E u \in DOMAIN binary_R_tilde[i] :
         u \in Raters(i) /\ ~binary_R_tilde[i][u]

\* C10: the selected neighbours are at most 3 users, each of whom rated the
\* item and is not the query user.
C10_NeighboursExcludeSelf ==
    (res.op = "predict" /\ res.raised = "none") =>
        /\ Cardinality(res.neighbours) <= 3
        /\ \A v \in res.neighbours : v \in Raters(res.args[2]) /\ v # res.args[1]

----------------------------------------------------------------------------
(* Properties of the least-squares models *)

\* the selections of context-flag columns: one of daytime and nighttime,
\* with or without the weekend flag
FlagSelections ==
    { F \in SUBSET {is_weekend_index, is_daytime_index, is_nighttime_index} :
        (is_daytime_index \in F) # (is_nighttime_index \in F) }

\* the year and the quarter predict derives for a timestamp
YearOf(timestamp) == Civil(fromtimestamp(timestamp)).year
QuarterOf(timestamp) == ((Civil(fromtimestamp(timestamp)).month - 1) \div 3) + 1

C4_FitsEagerly ==
    (/\ res.op = "predict"
     /\ HasColumn(<<"user", res.args[1]>>)
     /\ HasColumn(<<"item", res.args[2]>>)) =>
        /\ beta # NoBeta
        /\ \E F \in FlagSelections :
              res.value = Clip(RAdd(R_hat, SumBeta(beta,
                  {get_loc(<<"user", res.args[1]>>), get_loc(<<"item", res.args[2]>>)} \cup F)))

\* C8: the daytime/nighttime flag predict uses for a timestamp is the one fit
\* assigns to a record with that timestamp, and it is daytime exactly when
\* 06:00 <= time of day < 18:00.
C8_DayNightConsistent ==
    (res.op = "predict" /\ res.indices # {}) =>
        LET timestamp == res.args[3]
            daytime == is_daytime_index \in res.indices
            fit == Features([user |-> 0, item |-> 0, rating |-> 1, timestamp |-> timestamp])
            t == TimeOf(to_datetime(timestamp))
        IN  /\ (is_nighttime_index \in res.indices) = ~daytime
            /\ daytime <=> (fit.is_daytime = 1)
            /\ daytime <=> (time_6_00 <= t /\ t < time_18_00)
            /\ \A k \in DOMAIN ratings :
                 ratings[k].timestamp = timestamp =>
                    (daytime <=> (is_daytime_index \in X.rows[k]))

====
